---- MODULE Spec2Model ----
(***************************************************************************)
(* ContextWeaver (src/main.rs): the rewrite of a parsed WebAssembly module *)
(* into one whose functions thread a hidden i64 context.  The state is the *)
(* output module under construction, the identity maps, and the position   *)
(* of main and of the recursive copy_seq walk.                             *)
(***************************************************************************)
EXTENDS Integers, Sequences, FiniteSets, TLC

VARIABLES
    module,      \* the parsed input module (never mutated)
    pc,          \* position of main
    idx,         \* index of the loop main is in (functions, then exports)
    ctx,         \* main's `ctx`: the shared hidden context local
    locals,      \* new_module.locals (arena; a new LocalId is <<"new", index>>)
    imports,     \* new_module.imports
    funcs,       \* new_module.funcs  (arena; a new FunctionId is <<"new", index>>)
    seqs,        \* instruction sequences built so far (a new InstrSeqId is an index)
    exports,     \* new_module.exports
    sections,    \* sections assigned at the end of main (start, elements, ...)
    locals_map,  \* old LocalId -> new LocalId
    funcs_map,   \* old FunctionId -> new FunctionId
    ctx_get,     \* Option<FunctionId>
    ctx_set,     \* Option<FunctionId>
    stack,       \* copy_seq's scope stack: Vec<(InstrSeqId, InstrSeqId)>
    frames,      \* the activations of copy_seq, innermost last
    output       \* output.wasm: None until written

vars == <<module, pc, idx, ctx, locals, imports, funcs, seqs, exports, sections,
          locals_map, funcs_map, ctx_get, ctx_set, stack, frames, output>>

None == [none |-> TRUE]
Some(x) == [some |-> x]
IsSome(o) == "some" \in DOMAIN o

\* Size of the generated function bodies: instructions per body, nested ones included.
MaxInstrs == 3

I32 == "i32"
I64 == "i64"

Old(k) == <<"old", k>>
New(k) == <<"new", k>>

Ty(ps, rs) == [params |-> ps, results |-> rs]

----------------------------------------------------------------------------
(* The input: what walrus hands to main after parsing.                     *)

\* Old function identities of the generated modules.
FGet == Old(1)
FSet == Old(2)
FLog == Old(3)
FMain == Old(4)
FAux == Old(5)

\* Identity of a nested sequence: the path from the entry block.  The sequence
\* owned by the structured instruction at position pos of sequence path is
\* path \o <<2*pos>> (Block, Loop, consequent) or path \o <<2*pos+1>> (alternative).
Entry == <<>>
Child(path, pos) == Append(path, 2 * pos)
Alt(path, pos) == Append(path, 2 * pos + 1)

Prefixes(path) == { SubSeq(path, 1, n) : n \in 0..Len(path) }

\* The generated bodies hold the instructions copy_seq tells apart.  The operand
\* instructions around them (constants, drops) all take the last arm of copy_seq
\* (lines 134-136), which copies them unchanged; "drop" stands for them.

\* Instructions of the context family: the sentinel calls and a call.
CtxLeaves ==
    { [op |-> "call", func |-> FGet],
      [op |-> "call", func |-> FSet],
      [op |-> "call", func |-> FAux] }

\* Instructions of the branch family at a sequence: a branch may name the
\* sequence itself or any sequence enclosing it.
BrLeaves(path) ==
    { [op |-> "br", block |-> t] : t \in Prefixes(path) }
    \cup { [op |-> "br_if", block |-> path] }
    \cup { [op |-> "br_table", blocks |-> <<Entry, path>>,
            default |-> SubSeq(path, 1, Len(path) - (IF path = Entry THEN 0 ELSE 1))] }

Leaves(fam, path) == IF fam = "ctx" THEN CtxLeaves ELSE BrLeaves(path)

\* The constructs of a family: blocks and conditionals around the context
\* instructions, loops around the branches.
Wrap(fam) == IF fam = "ctx" THEN "block" ELSE "loop"

\* All instruction lists of at most n instructions (nested ones counted) that
\* can stand at positions pos, pos+1, ... of the sequence path.
RECURSIVE Forest(_, _, _, _)
Forest(fam, path, pos, n) ==
    IF n = 0 THEN { <<>> }
    ELSE
      LET leafs == Leaves(fam, path)
          one(k) == { [op |-> Wrap(fam), seq |-> Child(path, pos), body |-> b] :
                        b \in Forest(fam, Child(path, pos), 1, k) }
          two(k) == IF fam = "br" THEN {} ELSE
                    UNION { { [op |-> "if_else",
                               consequent |-> Child(path, pos), cbody |-> c,
                               alternative |-> Alt(path, pos), abody |-> a] :
                                 c \in Forest(fam, Child(path, pos), 1, kc),
                                 a \in Forest(fam, Alt(path, pos), 1, k - kc) } :
                            kc \in 0..k }
          \* a first instruction that is exactly of size s
          sized(s) == IF s = 1 THEN leafs \cup one(0) \cup two(0)
                      ELSE (one(s - 1) \ one(s - 2)) \cup (two(s - 1) \ two(s - 2))
      IN  { <<>> } \cup
          UNION { UNION { { <<i>> \o rest : rest \in Forest(fam, path, pos + 1, n - s) } :
                            i \in sized(s) } : s \in 1..n }

\* Instructions the two families leave out, each alone or after a context-set.
Singles ==
    { [op |-> "local.get", local |-> Old(1)],
      [op |-> "local.set", local |-> Old(2)],
      [op |-> "local.tee", local |-> Old(2)],
      [op |-> "ref.func", func |-> FAux],
      [op |-> "call", func |-> FLog],
      [op |-> "call", func |-> FMain],
      [op |-> "return_call", func |-> FAux],
      [op |-> "return_call", func |-> FLog],
      [op |-> "return_call", func |-> FGet],
      [op |-> "call_indirect", ty |-> Ty(<<I32>>, <<>>), table |-> 1],
      [op |-> "return_call_indirect", ty |-> Ty(<<I32>>, <<>>), table |-> 1],
      [op |-> "drop"] }

\* Branches in the arms of a conditional inside a loop.
BrArms ==
    { << [op |-> "loop", seq |-> Child(Entry, 1),
          body |-> << [op |-> "if_else",
                       consequent |-> Child(Child(Entry, 1), 1), cbody |-> c,
                       alternative |-> Alt(Child(Entry, 1), 1), abody |-> a] >>] >> :
        c \in Forest("br", Child(Child(Entry, 1), 1), 1, 1),
        a \in Forest("br", Alt(Child(Entry, 1), 1), 1, 1) }

Bodies ==
    Forest("ctx", Entry, 1, MaxInstrs)
    \cup Forest("br", Entry, 1, MaxInstrs)
    \cup BrArms
    \cup { <<i>> : i \in Singles }
    \cup { <<[op |-> "call", func |-> FSet], i>> : i \in Singles }
    \cup { <<[op |-> "block", seq |-> Child(Entry, 1),
              body |-> <<[op |-> "call", func |-> FSet]>>], i>> : i \in Singles }

\* Module-level shapes: which sentinels are imported, whether there is a start
\* function, an imported memory, an element segment.
Shapes == [get : BOOLEAN, set : BOOLEAN, start : BOOLEAN, mem : BOOLEAN, elem : BOOLEAN]
FullShape == [get |-> TRUE, set |-> TRUE, start |-> TRUE, mem |-> TRUE, elem |-> TRUE]
PlainShape == [get |-> TRUE, set |-> TRUE, start |-> FALSE, mem |-> FALSE, elem |-> FALSE]

Keep(s, flags) == LET I == { i \in 1..Len(s) : flags[i] }
                      RECURSIVE build(_)
                      build(i) == IF i > Len(s) THEN <<>>
                                  ELSE (IF i \in I THEN <<s[i]>> ELSE <<>>) \o build(i + 1)
                  IN  build(1)

\* A sentinel-free body for the modules that lack a sentinel import.
AuxBody == <<[op |-> "call", func |-> FLog]>>

MkModule(body, sh) ==
    [ imports |->
        Keep(<< [id |-> 1, module |-> "env", name |-> "__ctx_get", kind |-> "func",
                 item |-> FGet],
                [id |-> 2, module |-> "env", name |-> "__ctx_set", kind |-> "func",
                 item |-> FSet],
                [id |-> 3, module |-> "host", name |-> "log", kind |-> "func",
                 item |-> FLog],
                [id |-> 4, module |-> "env", name |-> "memory", kind |-> "memory",
                 item |-> 1] >>,
             <<sh.get, sh.set, TRUE, sh.mem>>),
      funcs |->
        Keep(<< [id |-> FGet, kind |-> "import", import |-> 1,
                 ty |-> Ty(<<>>, <<I64>>), name |-> None],
                [id |-> FSet, kind |-> "import", import |-> 2,
                 ty |-> Ty(<<I64>>, <<>>), name |-> None],
                [id |-> FLog, kind |-> "import", import |-> 3,
                 ty |-> Ty(<<I32>>, <<>>), name |-> None],
                [id |-> FMain, kind |-> "local", ty |-> Ty(<<I32, I64>>, <<I64>>),
                 name |-> Some("main"), args |-> <<Old(1), Old(2)>>, body |-> body],
                [id |-> FAux, kind |-> "local", ty |-> Ty(<<>>, <<>>),
                 name |-> None, args |-> <<>>, body |-> AuxBody] >>,
             <<sh.get, sh.set, TRUE, TRUE, TRUE>>),
      locals |-> << [id |-> Old(1), ty |-> I32, name |-> Some("n")],
                    [id |-> Old(2), ty |-> I64, name |-> None] >>,
      exports |-> << [name |-> "run", item |-> [kind |-> "func", id |-> FMain]],
                     [name |-> "memory", item |-> [kind |-> "memory", id |-> 1]],
                     [name |-> "log", item |-> [kind |-> "func", id |-> FLog]] >>,
      start |-> IF sh.start THEN Some(FAux) ELSE None,
      elements |-> IF sh.elem THEN << <<FAux, FMain>> >> ELSE <<>>,
      globals |-> IF sh.elem THEN << [id |-> 1, init |-> [op |-> "ref.func", func |-> FAux]] >>
                  ELSE <<>>,
      memories |-> << [id |-> 1, import |-> IF sh.mem THEN Some(4) ELSE None] >> ]

Modules ==
    { MkModule(b, PlainShape) : b \in Bodies }
    \cup { MkModule(b, sh) :
             b \in { <<[op |-> "drop"]>> }, sh \in Shapes }
    \cup { MkModule(<<[op |-> "call", func |-> FSet], [op |-> "call", func |-> FGet]>>, FullShape) }

----------------------------------------------------------------------------
(* Helpers of the translation.                                             *)

Range(s) == { s[i] : i \in 1..Len(s) }

\* HashMap::get and HashMap::insert.
Get(map, k) == IF k \in DOMAIN map THEN Some(map[k]) ELSE None
Insert(map, k, v) == [x \in DOMAIN map \cup {k} |-> IF x = k THEN v ELSE map[x]]

\* module.imports.get(id)
ImportOf(id) == CHOOSE im \in Range(module.imports) : im.id = id

\* The sequences of a function body, by identity (LocalFunction::block).
RECURSIVE Blocks(_, _)
Blocks(id, instrs) ==
    { [id |-> id, ty |-> "empty", instrs |-> instrs] } \cup
    UNION { LET i == instrs[k]
            IN  IF i.op \in {"block", "loop"} THEN Blocks(i.seq, i.body)
                ELSE IF i.op = "if_else"
                     THEN Blocks(i.consequent, i.cbody) \cup Blocks(i.alternative, i.abody)
                     ELSE {} : k \in 1..Len(instrs) }

block(func, id) == CHOOSE b \in Blocks(Entry, func.body) : b.id = id

\* find_block: the new sequence of the first stack entry whose key is id.
find_block_innermost(stk, id) ==
    IF stk = <<>> THEN None ELSE Some(stk[Len(stk)][2])
find_block(stk, id) ==
    LET hits == { k \in 1..Len(stk) : stk[k][1] = id }
    IN  IF hits = {} THEN None
        ELSE Some(stk[CHOOSE k \in hits : \A j \in hits : k <= j][2])

\* The signature given to the new function of an old one: the old parameters
\* and one trailing i64, the old results.
new_params_leading(old_ty) == <<I64>> \o old_ty.params
new_params(old_ty) == Append(old_ty.params, I64)
new_results(old_ty) == old_ty.results

\* The instructions that replace a direct call and a tail call of callee f
\* (already translated) with c the context local of the walk.
RewriteCall(c, f) == << [op |-> "local.get", local |-> c], [op |-> "call", func |-> f] >>
RewriteReturnCall(c, f) ==
    << [op |-> "local.get", local |-> c], [op |-> "return_call", func |-> f] >>

\* The body of a shim over parameter locals args: reads each, then tail.
ReadArgs(args) == [k \in 1..Len(args) |-> [op |-> "local.get", local |-> args[k]]]
ImportShimBody(args, import) == ReadArgs(args) \o << [op |-> "call", func |-> import] >>
ExportShimBody_no_ctx(args, export_shim) ==
    ReadArgs(args) \o << [op |-> "call", func |-> export_shim] >>
ExportShimBody(args, export_shim) ==
    ReadArgs(args) \o << [op |-> "i64.const", value |-> 0],
                         [op |-> "call", func |-> export_shim] >>

\* Whether main passes its two expect() calls on the sentinels.
SentinelsFound_get_only == IsSome(ctx_get)
SentinelsFound == IsSome(ctx_get) /\ IsSome(ctx_set)

----------------------------------------------------------------------------
Init ==
    /\ module \in Modules
    /\ pc = "locals"
    /\ idx = 1
    /\ ctx = None
    /\ locals = <<>>
    /\ imports = <<>>
    /\ funcs = <<>>
    /\ seqs = <<>>
    /\ exports = <<>>
    /\ sections = None
    /\ locals_map = <<>>
    /\ funcs_map = <<>>
    /\ ctx_get = None
    /\ ctx_set = None
    /\ stack = <<>>
    /\ frames = <<>>
    /\ output = None

\* Lines 151-163: the shared context local, then one new local per old local.
MapLocals ==
    /\ pc = "locals"
    /\ LET n == Len(module.locals)
       IN  /\ ctx' = New(1)
           /\ locals' = << [ty |-> I64, name |-> Some("ctx")] >> \o
                         [k \in 1..n |-> [ty |-> module.locals[k].ty,
                                          name |-> module.locals[k].name]]
           /\ locals_map' = [l \in { module.locals[k].id : k \in 1..n } |->
                               New(1 + CHOOSE k \in 1..n : module.locals[k].id = l)]
    /\ pc' = "declare"
    /\ idx' = 1
    /\ UNCHANGED <<module, imports, funcs, seqs, exports, sections, funcs_map,
                   ctx_get, ctx_set, stack, frames, output>>

NFuncs == Len(module.funcs)
old_func == module.funcs[idx]

\* A panic (a failed unwrap or expect) ends main where it stands.
Panic == /\ pc' = "panic"
         /\ UNCHANGED <<module, idx, ctx, locals, imports, funcs, seqs, exports, sections,
                        locals_map, funcs_map, ctx_get, ctx_set, stack, frames, output>>

\* FunctionBuilder::new: a builder owns a fresh, empty entry sequence.
NewSeq(ty) == [ty |-> ty, instrs |-> <<>>]

\* Lines 168-188, one iteration on a local function.
DeclareLocal ==
    /\ pc = "declare" /\ idx <= NFuncs /\ old_func.kind = "local"
    /\ LET old_ty == old_func.ty
           fn == old_func
           found == \A k \in 1..Len(fn.args) : fn.args[k] \in DOMAIN locals_map
       IN  IF ~found THEN Panic
           ELSE
             LET args == [k \in 1..Len(fn.args) |-> locals_map[fn.args[k]]] \o <<ctx>>
                 new_func == New(Len(funcs) + 1)
             IN  /\ seqs' = Append(seqs, NewSeq("entry"))
                 /\ funcs' = Append(funcs,
                       [kind |-> "local",
                        ty |-> Ty(new_params(old_ty), new_results(old_ty)),
                        name |-> fn.name, args |-> args, entry |-> Len(seqs) + 1])
                 /\ funcs_map' = Insert(funcs_map, fn.id, new_func)
                 /\ idx' = idx + 1
                 /\ UNCHANGED <<module, pc, ctx, locals, imports, exports, sections,
                                locals_map, ctx_get, ctx_set, stack, frames, output>>

\* Lines 189-197: a sentinel import is remembered and gets no new function.
DeclareCtxGet ==
    /\ pc = "declare" /\ idx <= NFuncs /\ old_func.kind = "import"
    /\ ImportOf(old_func.import).name = "__ctx_get"
    /\ ctx_get' = Some(old_func.id)
    /\ idx' = idx + 1
    /\ UNCHANGED <<module, pc, ctx, locals, imports, funcs, seqs, exports, sections,
                   locals_map, funcs_map, ctx_set, stack, frames, output>>

DeclareCtxSet ==
    /\ pc = "declare" /\ idx <= NFuncs /\ old_func.kind = "import"
    /\ ImportOf(old_func.import).name # "__ctx_get"
    /\ ImportOf(old_func.import).name = "__ctx_set"
    /\ ctx_set' = Some(old_func.id)
    /\ idx' = idx + 1
    /\ UNCHANGED <<module, pc, ctx, locals, imports, funcs, seqs, exports, sections,
                   locals_map, funcs_map, ctx_get, stack, frames, output>>

\* Lines 198-216: any other imported function is imported again under its
\* own signature, and a shim with the extended signature stands for it.
DeclareImport ==
    /\ pc = "declare" /\ idx <= NFuncs /\ old_func.kind = "import"
    /\ ImportOf(old_func.import).name \notin {"__ctx_get", "__ctx_set"}
    /\ LET old_ty == old_func.ty
           import == ImportOf(old_func.import)
           new_import == New(Len(funcs) + 1)
           n == Len(old_ty.params)
           fresh == [k \in 1..n |-> New(Len(locals) + k)]
           args == fresh \o <<ctx>>
           import_shim == New(Len(funcs) + 2)
       IN  /\ imports' = Append(imports,
                 [module |-> import.module, name |-> import.name, kind |-> "func",
                  item |-> new_import])
           /\ locals' = locals \o [k \in 1..n |-> [ty |-> old_ty.params[k], name |-> None]]
           /\ seqs' = Append(seqs, [ty |-> "entry",
                                    instrs |-> ImportShimBody(fresh, new_import)])
           /\ funcs' = funcs \o
                 << [kind |-> "import", ty |-> Ty(old_ty.params, old_ty.results),
                     import |-> Len(imports) + 1],
                    [kind |-> "local",
                     ty |-> Ty(new_params(old_ty), new_results(old_ty)),
                     name |-> Some(<<"import_shim::", import.name>>),
                     args |-> args, entry |-> Len(seqs) + 1] >>
           /\ funcs_map' = Insert(funcs_map, old_func.id, import_shim)
    /\ idx' = idx + 1
    /\ UNCHANGED <<module, pc, ctx, exports, sections, locals_map, ctx_get, ctx_set,
                   stack, frames, output>>

\* Lines 222-227: both sentinels must have been seen.
BuildMaps ==
    /\ pc = "declare" /\ idx > NFuncs
    /\ IF SentinelsFound
       THEN /\ pc' = "copy"
            /\ idx' = 1
            /\ UNCHANGED <<module, ctx, locals, imports, funcs, seqs, exports, sections,
                           locals_map, funcs_map, ctx_get, ctx_set, stack, frames, output>>
       ELSE Panic

----------------------------------------------------------------------------
(* copy_seq (lines 19-139), one instruction per step.  A frame is one      *)
(* activation: the old sequence `seq`, the position in it, its own         *)
(* `ctx` (passed by value), its builder, and for an If/Else which arm the   *)
(* activation copies and the consequent already built.                      *)

Top == frames[Len(frames)]
AtInstr == pc = "body" /\ Top.pos <= Len(Top.seq.instrs)
instr == Top.seq.instrs[Top.pos]

Frame(seq, c, builder, arm) ==
    [seq |-> seq, pos |-> 1, ctx |-> c, builder |-> builder, arm |-> arm, held |-> 0]

\* The `ctx` a nested activation starts from: the caller's, by value.
ctx_arg_param(c) == New(1)
ctx_arg(c) == c

\* The step after the last function body: on to the exports.
AfterBody ==
    /\ pc' = IF idx + 1 > NFuncs THEN "export" ELSE "copy"
    /\ idx' = IF idx + 1 > NFuncs THEN 1 ELSE idx + 1

\* Lines 228-247 on a local function: copy_seq is entered on its entry block
\* (line 28 pushes the pair on the fresh stack).
BeginBody ==
    /\ pc = "copy" /\ idx <= NFuncs /\ old_func.kind = "local"
    /\ LET new_id == Get(funcs_map, old_func.id)
       IN  IF ~IsSome(new_id) THEN Panic
           ELSE LET body == funcs[new_id.some[2]].entry
                    seq == block(old_func, Entry)
                IN  /\ stack' = << <<seq.id, body>> >>
                    /\ frames' = << Frame(seq, ctx_arg(ctx), body, 0) >>
                    /\ pc' = "body"
                    /\ UNCHANGED <<module, idx, ctx, locals, imports, funcs, seqs, exports,
                                   sections, locals_map, funcs_map, ctx_get, ctx_set,
                                   output>>

\* Line 229 on an imported function: nothing to copy.
SkipImportBody ==
    /\ pc = "copy" /\ idx <= NFuncs /\ old_func.kind = "import"
    /\ AfterBody
    /\ UNCHANGED <<module, ctx, locals, imports, funcs, seqs, exports, sections,
                   locals_map, funcs_map, ctx_get, ctx_set, stack, frames, output>>

\* builder.instr(..) for each of ins, and on to the next instruction.
Emit(ins) ==
    /\ seqs' = [seqs EXCEPT ![Top.builder].instrs = @ \o ins]
    /\ frames' = [frames EXCEPT ![Len(frames)].pos = @ + 1]
    /\ UNCHANGED <<module, pc, idx, ctx, locals, imports, funcs, exports, sections,
                   locals_map, funcs_map, ctx_get, ctx_set, stack, output>>

\* Lines 30-33.
CopyBr ==
    /\ AtInstr /\ instr.op = "br"
    /\ LET b == find_block(stack, instr.block)
       IN  IF IsSome(b) THEN Emit(<< [op |-> "br", block |-> b.some] >>) ELSE Panic

\* Lines 34-37.
CopyBrIf ==
    /\ AtInstr /\ instr.op = "br_if"
    /\ LET b == find_block(stack, instr.block)
       IN  IF IsSome(b) THEN Emit(<< [op |-> "br_if", block |-> b.some] >>) ELSE Panic

\* Lines 38-47.
CopyBrTable ==
    /\ AtInstr /\ instr.op = "br_table"
    /\ LET bs == [k \in 1..Len(instr.blocks) |-> find_block(stack, instr.blocks[k])]
           default == find_block(stack, instr.default)
       IN  IF (\A k \in 1..Len(bs) : IsSome(bs[k])) /\ IsSome(default)
           THEN Emit(<< [op |-> "br_table",
                         blocks |-> [k \in 1..Len(bs) |-> bs[k].some],
                         default |-> default.some] >>)
           ELSE Panic

\* Entering a nested sequence: dangling_instr_seq, then copy_seq (line 28).
Enter(seq, arm, held) ==
    LET id == Len(seqs) + 1
    IN  /\ seqs' = Append(seqs, NewSeq(seq.ty))
        /\ stack' = Append(stack, <<seq.id, id>>)
        /\ frames' = Append([frames EXCEPT ![Len(frames)].held = held],
                            Frame(seq, ctx_arg(Top.ctx), id, arm))
        /\ UNCHANGED <<module, pc, idx, ctx, locals, imports, funcs, exports, sections,
                       locals_map, funcs_map, ctx_get, ctx_set, output>>

\* Lines 49-53.
EnterBlock == AtInstr /\ instr.op = "block" /\ Enter(block(old_func, instr.seq), 0, 0)
\* Lines 55-59.
EnterLoop == AtInstr /\ instr.op = "loop" /\ Enter(block(old_func, instr.seq), 0, 0)
\* Lines 61-73.
EnterIfElse ==
    AtInstr /\ instr.op = "if_else" /\ Enter(block(old_func, instr.consequent), 1, 0)

\* Lines 90-101.
CopyLocal ==
    /\ AtInstr /\ instr.op \in {"local.get", "local.set", "local.tee"}
    /\ LET local == Get(locals_map, instr.local)
       IN  IF IsSome(local) THEN Emit(<< [op |-> instr.op, local |-> local.some] >>)
           ELSE Panic

\* Lines 103-106.
CopyRefFunc ==
    /\ AtInstr /\ instr.op = "ref.func"
    /\ LET func == Get(funcs_map, instr.func)
       IN  IF IsSome(func) THEN Emit(<< [op |-> "ref.func", func |-> func.some] >>)
           ELSE Panic

\* Lines 109-110.
CopyCtxGet ==
    /\ AtInstr /\ instr.op = "call" /\ Some(instr.func) = ctx_get
    /\ Emit(<< [op |-> "local.get", local |-> Top.ctx] >>)

\* Lines 111-114: a fresh local becomes this activation's `ctx`.
CopyCtxSet ==
    /\ AtInstr /\ instr.op = "call"
    /\ Some(instr.func) # ctx_get /\ Some(instr.func) = ctx_set
    /\ LET c == New(Len(locals) + 1)
       IN  /\ locals' = Append(locals, [ty |-> I64, name |-> Some("ctx")])
           /\ seqs' = [seqs EXCEPT ![Top.builder].instrs =
                                      Append(@, [op |-> "local.set", local |-> c])]
           /\ frames' = [frames EXCEPT ![Len(frames)].pos = @ + 1,
                                       ![Len(frames)].ctx = c]
    /\ UNCHANGED <<module, pc, idx, ctx, imports, funcs, exports, sections,
                   locals_map, funcs_map, ctx_get, ctx_set, stack, output>>

\* Lines 115-119.
CopyCall ==
    /\ AtInstr /\ instr.op = "call"
    /\ Some(instr.func) # ctx_get /\ Some(instr.func) # ctx_set
    /\ LET func == Get(funcs_map, instr.func)
       IN  IF IsSome(func) THEN Emit(RewriteCall(Top.ctx, func.some)) ELSE Panic

\* Lines 120-124.
CopyReturnCall ==
    /\ AtInstr /\ instr.op = "return_call"
    /\ LET func == Get(funcs_map, instr.func)
       IN  IF IsSome(func) THEN Emit(RewriteReturnCall(Top.ctx, func.some)) ELSE Panic

\* Lines 125-132.
CopyCallIndirect ==
    /\ AtInstr /\ instr.op \in {"call_indirect", "return_call_indirect"}
    /\ Emit(<< [op |-> "local.get", local |-> Top.ctx], [op |-> "unreachable"] >>)

Handled == {"br", "br_if", "br_table", "block", "loop", "if_else",
            "local.get", "local.set", "local.tee", "ref.func", "call", "return_call",
            "call_indirect", "return_call_indirect"}

\* Lines 134-136.
CopyOther ==
    /\ AtInstr /\ instr.op \notin Handled
    /\ Emit(<< instr >>)

\* Line 138 and the caller's next lines.  The activation pops its own pair
\* and returns the new sequence; the caller wraps it (lines 54, 60), or goes
\* on to the alternative (lines 74-84), or builds the IfElse (lines 85-88).
AtEnd == pc = "body" /\ Top.pos > Len(Top.seq.instrs)
Caller == frames[Len(frames) - 1]
CallerInstr == Caller.seq.instrs[Caller.pos]
Popped == stack[Len(stack)][2]

ReturnToCaller(ins) ==
    /\ stack' = SubSeq(stack, 1, Len(stack) - 1)
    /\ frames' = [SubSeq(frames, 1, Len(frames) - 1) EXCEPT ![Len(frames) - 1].pos = @ + 1]
    /\ seqs' = [seqs EXCEPT ![Caller.builder].instrs = Append(@, ins)]
    /\ UNCHANGED <<module, pc, idx, ctx, locals, imports, funcs, exports, sections,
                   locals_map, funcs_map, ctx_get, ctx_set, output>>

ExitBlock ==
    /\ AtEnd /\ Len(frames) > 1 /\ Top.arm = 0 /\ CallerInstr.op = "block"
    /\ ReturnToCaller([op |-> "block", seq |-> Popped])

ExitLoop ==
    /\ AtEnd /\ Len(frames) > 1 /\ Top.arm = 0 /\ CallerInstr.op = "loop"
    /\ ReturnToCaller([op |-> "loop", seq |-> Popped])

ExitConsequent ==
    /\ AtEnd /\ Len(frames) > 1 /\ Top.arm = 1
    /\ LET consequent == Popped
           id == Len(seqs) + 1
           seq == block(old_func, CallerInstr.alternative)
       IN  /\ seqs' = Append(seqs, NewSeq(seq.ty))
           /\ stack' = Append(SubSeq(stack, 1, Len(stack) - 1), <<seq.id, id>>)
           /\ frames' = Append([SubSeq(frames, 1, Len(frames) - 1)
                                  EXCEPT ![Len(frames) - 1].held = consequent],
                               Frame(seq, ctx_arg(Caller.ctx), id, 2))
    /\ UNCHANGED <<module, pc, idx, ctx, locals, imports, funcs, exports, sections,
                   locals_map, funcs_map, ctx_get, ctx_set, output>>

ExitAlternative ==
    /\ AtEnd /\ Len(frames) > 1 /\ Top.arm = 2
    /\ ReturnToCaller([op |-> "if_else", consequent |-> Caller.held,
                       alternative |-> Popped])

\* copy_seq returns to main (line 247): the next function, or the exports.
ExitBody ==
    /\ AtEnd /\ Len(frames) = 1
    /\ stack' = SubSeq(stack, 1, Len(stack) - 1)
    /\ frames' = <<>>
    /\ AfterBody
    /\ UNCHANGED <<module, ctx, locals, imports, funcs, seqs, exports, sections,
                   locals_map, funcs_map, ctx_get, ctx_set, output>>

----------------------------------------------------------------------------
(* The exports (lines 251-276), the copied sections (278-287), the file.   *)

NExports == Len(module.exports)
e == module.exports[idx]
FuncOf(id) == CHOOSE f \in Range(module.funcs) : f.id = id

AfterExport ==
    /\ pc' = IF idx + 1 > NExports THEN "assemble" ELSE "export"
    /\ idx' = idx + 1

\* Lines 252-272: a shim with the export's own signature.
ExportFunction ==
    /\ pc = "export" /\ idx <= NExports /\ e.item.kind = "func"
    /\ LET f == e.item.id
           ty == FuncOf(f).ty
           export_shim == Get(funcs_map, f)
       IN  IF ~IsSome(export_shim) THEN Panic
           ELSE
             LET n == Len(ty.params)
                 fresh == [k \in 1..n |-> New(Len(locals) + k)]
                 args == fresh \o <<ctx>>
                 new_export == New(Len(funcs) + 1)
             IN  /\ locals' = locals \o [k \in 1..n |-> [ty |-> ty.params[k], name |-> None]]
                 /\ seqs' = Append(seqs, [ty |-> "entry",
                                          instrs |-> ExportShimBody(fresh, export_shim.some)])
                 /\ funcs' = Append(funcs,
                       [kind |-> "local", ty |-> Ty(ty.params, ty.results),
                        name |-> Some(<<"export_shim::", e.name>>),
                        args |-> args, entry |-> Len(seqs) + 1])
                 /\ exports' = Append(exports,
                       [name |-> e.name, item |-> [kind |-> "func", id |-> new_export]])
                 /\ AfterExport
                 /\ UNCHANGED <<module, ctx, imports, sections, locals_map, funcs_map,
                                ctx_get, ctx_set, stack, frames, output>>

\* Lines 273-275.
ExportOther ==
    /\ pc = "export" /\ idx <= NExports /\ e.item.kind # "func"
    /\ exports' = Append(exports, [name |-> e.name, item |-> e.item])
    /\ AfterExport
    /\ UNCHANGED <<module, ctx, locals, imports, funcs, seqs, sections, locals_map,
                   funcs_map, ctx_get, ctx_set, stack, frames, output>>

\* Line 285: the start function, through the identity map.
new_start(start) == Get(funcs_map, start)

\* Lines 278-287.
Assemble ==
    /\ pc = "assemble"
    /\ LET start == IF IsSome(module.start) THEN new_start(module.start.some) ELSE None
       IN  IF IsSome(module.start) /\ ~IsSome(start) THEN Panic
           ELSE /\ sections' = [elements |-> module.elements,
                                globals |-> module.globals,
                                memories |-> module.memories,
                                start |-> start]
                /\ pc' = "emit"
                /\ UNCHANGED <<module, idx, ctx, locals, imports, funcs, seqs, exports,
                               locals_map, funcs_map, ctx_get, ctx_set, stack, frames,
                               output>>

\* Where main creates and writes output.wasm.
AtWrite == pc = "emit"

\* Lines 289-292.
WriteOutput ==
    /\ AtWrite
    /\ output' = Some("output.wasm")
    /\ pc' = "done"
    /\ UNCHANGED <<module, idx, ctx, locals, imports, funcs, seqs, exports, sections,
                   locals_map, funcs_map, ctx_get, ctx_set, stack, frames>>

Next ==
    \/ MapLocals
    \/ DeclareLocal \/ DeclareCtxGet \/ DeclareCtxSet \/ DeclareImport
    \/ BuildMaps
    \/ BeginBody \/ SkipImportBody
    \/ CopyBr \/ CopyBrIf \/ CopyBrTable
    \/ EnterBlock \/ EnterLoop \/ EnterIfElse
    \/ CopyLocal \/ CopyRefFunc
    \/ CopyCtxGet \/ CopyCtxSet \/ CopyCall \/ CopyReturnCall \/ CopyCallIndirect
    \/ CopyOther
    \/ ExitBlock \/ ExitLoop \/ ExitConsequent \/ ExitAlternative \/ ExitBody
    \/ ExportFunction \/ ExportOther
    \/ Assemble
    \/ WriteOutput

Spec == Init /\ [][Next]_vars

----------------------------------------------------------------------------
(* Reading the input and the output for the properties below.              *)

\* The sentinels of the input, by the names of its function imports.
HasImport(n) == \E im \in Range(module.imports) : im.kind = "func" /\ im.name = n
IsSentinel(f) == f.kind = "import" /\ ImportOf(f.import).name \in {"__ctx_get", "__ctx_set"}
SentinelIds == { f.id : f \in { g \in Range(module.funcs) : IsSentinel(g) } }
NamedId(n) == { f.id : f \in { g \in Range(module.funcs) :
                                 g.kind = "import" /\ ImportOf(g.import).name = n } }

LocalFuncs == { f \in Range(module.funcs) : f.kind = "local" }
Index(f) == CHOOSE k \in 1..NFuncs : module.funcs[k] = f

\* The local functions whose body copy_seq has finished.
Copied ==
    IF pc \in {"export", "assemble", "emit", "done"} THEN LocalFuncs
    ELSE IF pc \in {"copy", "body"} THEN { f \in LocalFuncs : Index(f) < idx }
    ELSE {}

\* The new function standing for an old one.
NewFunc(f) == funcs[funcs_map[f.id][2]]

\* How many instructions the rewrite of one instruction takes.
Width(i) ==
    IF i.op \in {"return_call", "call_indirect", "return_call_indirect"} THEN 2
    ELSE IF i.op = "call" /\ i.func \notin SentinelIds THEN 2
    ELSE 1

\* Where the rewrite of instruction k of an old sequence starts in the new one.
RECURSIVE Off(_, _)
Off(instrs, k) == IF k = 1 THEN 1 ELSE Off(instrs, k - 1) + Width(instrs[k - 1])

\* The new sequence built for the old sequence path of f, read off the
\* finished body: the entry of the new function, or the sequence the rewritten
\* parent construct holds.
RECURSIVE NewOf(_, _)
NewOf(f, path) ==
    IF path = Entry THEN NewFunc(f).entry
    ELSE LET parent == SubSeq(path, 1, Len(path) - 1)
             c == path[Len(path)]
             o == seqs[NewOf(f, parent)].instrs[Off(block(f, parent).instrs, c \div 2)]
         IN  IF c % 2 = 1 THEN o.alternative
             ELSE IF o.op = "if_else" THEN o.consequent ELSE o.seq

\* The rewrite of instruction k of the old sequence b of f.
Out(f, b, k) == SubSeq(seqs[NewOf(f, b.id)].instrs,
                       Off(b.instrs, k), Off(b.instrs, k) + Width(b.instrs[k]) - 1)

\* The sites of f: a sequence and a position in it.
Sites(f) == UNION { { <<b, k>> : k \in 1..Len(b.instrs) } : b \in Blocks(Entry, f.body) }
SitesOf(f, ops) == { s \in Sites(f) : s[1].instrs[s[2]].op \in ops }
SiteInstr(s) == s[1].instrs[s[2]]

----------------------------------------------------------------------------
(* C6.  Every old function that has a new one (every function but the      *)
(* sentinels, once the first pass is over) is translated to a function      *)
(* with a body whose signature is the old parameters in order followed by   *)
(* one i64 and the old results; its parameter locals carry those kinds and  *)
(* end with the context local.  A local function keeps its name and has     *)
(* the translations of its own parameter locals; an imported function is    *)
(* translated to the wrapper, not to the import.                            *)
Declared == pc \in {"copy", "body", "export", "assemble", "emit", "done"}

SignatureOf(f) ==
    LET g == NewFunc(f)
        n == Len(f.ty.params)
    IN  /\ g.kind = "local"
        /\ Len(g.ty.params) = n + 1
        /\ \A k \in 1..n : g.ty.params[k] = f.ty.params[k]
        /\ g.ty.params[n + 1] = I64
        /\ g.ty.results = f.ty.results
        /\ Len(g.args) = n + 1
        /\ \A k \in 1..n + 1 : locals[g.args[k][2]].ty = g.ty.params[k]
        /\ g.args[n + 1] = ctx
        /\ locals[ctx[2]].name = Some("ctx")
        /\ f.kind = "local" =>
             /\ g.name = f.name
             /\ \A k \in 1..n : g.args[k] = locals_map[f.args[k]]

\* C6: every translated function has the old parameters, then one i64, and the old
\* results; every function but the sentinels is translated once the first pass is over.
C6_Signature ==
    /\ \A f \in Range(module.funcs) : f.id \in DOMAIN funcs_map => SignatureOf(f)
    /\ Declared => \A f \in Range(module.funcs) : ~IsSentinel(f) => f.id \in DOMAIN funcs_map

\* A finished run with a named local function of two parameters and the
\* wrapper of an imported function of one.
C6_Witness ==
    /\ pc = "done"
    /\ \E f \in LocalFuncs : IsSome(f.name) /\ NewFunc(f).ty.params = <<I32, I64, I64>>
    /\ \E f \in Range(module.funcs) :
          /\ f.kind = "import" /\ ~IsSentinel(f)
          /\ NewFunc(f).ty.params = <<I32, I64>>
          /\ NewFunc(f).kind = "local"

----------------------------------------------------------------------------
(* C4.  The exports built so far are the input's, in order and under the   *)
(* same names, and once the export loop is over there is one per input     *)
(* export.  A function export points at a shim with the signature of the    *)
(* exported function (no context parameter) whose body reads its own        *)
(* parameters in order, pushes the constant 0 and calls the translation of  *)
(* the exported function; any other export is the input's item.             *)
ExportsBuilt == pc \in {"assemble", "emit", "done"}

ExportShimOf(k) ==
    LET old == module.exports[k]
        f == FuncOf(old.item.id)
        g == funcs[exports[k].item.id[2]]
        n == Len(f.ty.params)
        body == seqs[g.entry].instrs
    IN  /\ exports[k].item.kind = "func"
        /\ g.kind = "local"
        /\ g.ty = f.ty
        /\ Len(body) = n + 2
        /\ \A j \in 1..n : /\ body[j] = [op |-> "local.get", local |-> g.args[j]]
                           /\ locals[g.args[j][2]].ty = f.ty.params[j]
                           /\ \A i \in 1..n : g.args[i] = g.args[j] => i = j
        /\ body[n + 1] = [op |-> "i64.const", value |-> 0]
        /\ body[n + 2] = [op |-> "call", func |-> funcs_map[f.id]]

\* C4: the exports are the input's, name for name and in order; a function export is a
\* shim of the original signature that reads its parameters, pushes 0 and calls the translation.
C4_ExportRoundTrip ==
    /\ Len(exports) <= NExports
    /\ ExportsBuilt => Len(exports) = NExports
    /\ \A k \in 1..Len(exports) :
          /\ exports[k].name = module.exports[k].name
          /\ IF module.exports[k].item.kind = "func" THEN ExportShimOf(k)
             ELSE exports[k].item = module.exports[k].item

\* A finished run that exported a function of two parameters and a memory.
C4_Witness ==
    /\ pc = "done"
    /\ \E k \in 1..Len(exports) :
          /\ exports[k].item.kind = "func"
          /\ Len(funcs[exports[k].item.id[2]].ty.params) = 2
    /\ \E k \in 1..Len(exports) : exports[k].item.kind = "memory"

----------------------------------------------------------------------------
(* C7.  When the input lacks a function import named __ctx_get or one      *)
(* named __ctx_set, main never reaches the second pass: no copy_seq         *)
(* activation exists, the scope stack is empty and the body of every        *)
(* translated local function is still empty.  And output.wasm is written    *)
(* only by a run that built everything: after a panic there is no file,     *)
(* and a written file comes with all bodies, exports and sections built.    *)
MissingSentinel == ~HasImport("__ctx_get") \/ ~HasImport("__ctx_set")

NoBodyCopied ==
    /\ pc \in {"locals", "declare", "panic"}
    /\ frames = <<>> /\ stack = <<>>
    /\ \A f \in LocalFuncs : f.id \in DOMAIN funcs_map => seqs[NewFunc(f).entry].instrs = <<>>

\* C7: a missing sentinel stops main before any body is copied, and output.wasm is
\* written only by a run that did not panic and built everything.
C7_FailFast ==
    /\ MissingSentinel => NoBodyCopied
    /\ pc = "panic" => output = None
    /\ IsSome(output) =>
          /\ pc = "done"
          /\ Copied = LocalFuncs /\ frames = <<>>
          /\ Len(exports) = NExports
          /\ sections # None

\* A run that panicked on a missing sentinel after declaring every function.
C7_Witness ==
    /\ pc = "panic" /\ MissingSentinel /\ idx > NFuncs
    /\ \A f \in Range(module.funcs) : ~IsSentinel(f) => f.id \in DOMAIN funcs_map
    /\ output = None

----------------------------------------------------------------------------
(* C3.  During the walk the scope stack holds exactly one pair per open    *)
(* sequence, outermost first: the k-th pair is the k-th activation's old    *)
(* sequence and the new sequence it builds, the old sequences are the       *)
(* prefixes of the innermost one, none twice; outside the walk the stack    *)
(* is empty.  In every finished body each branch (br, br_if, each entry     *)
(* and the default of br_table) names the new sequence built for the old    *)
(* sequence the original branch named, and distinct old sequences have      *)
(* distinct new ones.                                                       *)
StackMirrorsWalk ==
    /\ Len(stack) = Len(frames)
    /\ Len(stack) = Len(Top.seq.id) + 1
    /\ \A k \in 1..Len(stack) :
          /\ stack[k] = <<frames[k].seq.id, frames[k].builder>>
          /\ stack[k][1] = SubSeq(Top.seq.id, 1, k - 1)
          /\ \A j \in 1..Len(stack) : stack[j][1] = stack[k][1] => j = k

BranchOf(f, s) ==
    LET i == SiteInstr(s)
        o == Out(f, s[1], s[2])
    IN  /\ Len(o) = 1 /\ o[1].op = i.op
        /\ IF i.op = "br_table"
           THEN /\ Len(o[1].blocks) = Len(i.blocks)
                /\ \A k \in 1..Len(i.blocks) : o[1].blocks[k] = NewOf(f, i.blocks[k])
                /\ o[1].default = NewOf(f, i.default)
           ELSE o[1].block = NewOf(f, i.block)

\* C3: the scope stack mirrors the open sequences and is empty outside the walk; every
\* branch of a finished body names the new sequence of the old sequence it named.
C3_ScopeResolution ==
    /\ pc = "body" => StackMirrorsWalk
    /\ pc \notin {"body", "panic"} => stack = <<>> /\ frames = <<>>
    /\ \A f \in Copied :
          /\ \A s \in SitesOf(f, {"br", "br_if", "br_table"}) : BranchOf(f, s)
          /\ \A b1, b2 \in Blocks(Entry, f.body) :
                NewOf(f, b1.id) = NewOf(f, b2.id) => b1.id = b2.id

\* A finished body in which a branch two levels deep names the entry block
\* and a br_table stands two levels deep.
C3_Witness ==
    /\ pc = "done"
    /\ \E f \in Copied : \E s \in SitesOf(f, {"br"}) :
          Len(s[1].id) = 2 /\ SiteInstr(s).block = Entry
    /\ \E f \in Copied : \E s \in SitesOf(f, {"br_table"}) : Len(s[1].id) = 2

----------------------------------------------------------------------------
(* C2.  In every finished body, each direct call and each tail call whose  *)
(* callee is not a sentinel is rewritten to two instructions: a read of     *)
(* the context local live at the call, then the same kind of call to the    *)
(* translation of the callee.  The live local is the one written by the     *)
(* latest context-set before the call in the same sequence or, failing      *)
(* that, the one live at the construct that holds the sequence; at the      *)
(* start of the entry block it is the trailing parameter.  Nothing else is  *)
(* emitted: each new sequence is as long as the rewrites of its             *)
(* instructions.                                                            *)
IsSet(i) == i.op = "call" /\ i.func \in NamedId("__ctx_set")
IsGet(i) == i.op = "call" /\ i.func \in NamedId("__ctx_get")
CtxParam(f) == NewFunc(f).args[Len(NewFunc(f).args)]

RECURSIVE LiveAt(_, _, _)
LiveAt(f, path, k) ==
    LET b == block(f, path)
        sets == { j \in 1..k - 1 : IsSet(b.instrs[j]) }
    IN  IF sets # {}
        THEN Out(f, b, CHOOSE j \in sets : \A i \in sets : i <= j)[1].local
        ELSE IF path = Entry THEN CtxParam(f)
        ELSE LiveAt(f, SubSeq(path, 1, Len(path) - 1), path[Len(path)] \div 2)

CallSites(f) == { s \in SitesOf(f, {"call", "return_call"}) :
                    SiteInstr(s).func \notin SentinelIds }

CallSiteOf(f, s) ==
    Out(f, s[1], s[2]) =
        << [op |-> "local.get", local |-> LiveAt(f, s[1].id, s[2])],
           [op |-> SiteInstr(s).op, func |-> funcs_map[SiteInstr(s).func]] >>

\* C2: every call and tail call to a function other than a sentinel becomes a read of the
\* live context local followed by the same kind of call to the translated callee.
C2_CallSite ==
    \A f \in Copied :
       /\ \A s \in CallSites(f) : CallSiteOf(f, s)
       /\ \A b \in Blocks(Entry, f.body) :
             Len(seqs[NewOf(f, b.id)].instrs) = Off(b.instrs, Len(b.instrs) + 1) - 1

\* A finished body with a call to a function declared later, inside a nested
\* sequence, reading a local that a context-set of an enclosing sequence wrote.
C2_Witness ==
    /\ pc = "done"
    /\ \E f \in Copied : \E s \in CallSites(f) :
          /\ s[1].id # Entry
          /\ Index(FuncOf(SiteInstr(s).func)) > Index(f)
          /\ LiveAt(f, s[1].id, s[2]) # CtxParam(f)
          /\ ~\E j \in 1..s[2] - 1 : IsSet(s[1].instrs[j])

----------------------------------------------------------------------------
(* Function references and imports of the output.                          *)

IsNewFunc(id) == id[1] = "new" /\ id[2] \in 1..Len(funcs)

\* The function references held by the instructions built.
InstrRefs == { i.func : i \in { j \in UNION { Range(seqs[n].instrs) : n \in 1..Len(seqs) } :
                                  j.op \in {"call", "return_call", "ref.func"} } }

SentinelImport(im) == im.kind = "func" /\ im.name \in {"__ctx_get", "__ctx_set"}

\* An output import that is the input import im: same module name, same field
\* name, same kind, and for a function the same signature.
SameImport(new, im) ==
    /\ new.module = im.module /\ new.name = im.name /\ new.kind = im.kind
    /\ im.kind = "func" => funcs[new.item[2]].ty = FuncOf(im.item).ty

\* Program order of the sites of a body: the address of a site is the path of
\* its sequence followed by twice its position.
Address(s) == Append(s[1].id, 2 * s[2])
Before(a, b) ==
    \E k \in 1..Len(a) : /\ k <= Len(b) /\ a[k] < b[k]
                         /\ \A j \in 1..k - 1 : a[j] = b[j]
\* Two sites in the two arms of one If/Else: neither runs before the other.
SiblingArms(a, b) ==
    \E k \in 1..Len(a) - 1 : /\ k < Len(b) /\ a[k] # b[k] /\ a[k] \div 2 = b[k] \div 2
                             /\ \A j \in 1..k - 1 : a[j] = b[j]

----------------------------------------------------------------------------
(* C1.  Whenever the input imports both sentinels the run does not panic,  *)
(* and the finished output has no call or tail call to a sentinel: every    *)
(* call of __ctx_get has become one local read, every call of __ctx_set one *)
(* write to a local allocated for it alone, and no import or function of    *)
(* the output is a sentinel.                                                *)
FreshLocals(f) ==
    { Out(f, s[1], s[2])[1].local : s \in { t \in SitesOf(f, {"call"}) : IsSet(SiteInstr(t)) } }

SentinelsGone ==
    /\ \A r \in InstrRefs : IsNewFunc(r)
    /\ \A k \in 1..Len(imports) : ~SentinelImport(imports[k])
    /\ \A f \in Copied :
          /\ \A s \in SitesOf(f, {"call"}) :
                /\ IsGet(SiteInstr(s)) =>
                      /\ Len(Out(f, s[1], s[2])) = 1
                      /\ Out(f, s[1], s[2])[1].op = "local.get"
                /\ IsSet(SiteInstr(s)) =>
                      /\ Len(Out(f, s[1], s[2])) = 1
                      /\ Out(f, s[1], s[2])[1].op = "local.set"
                      /\ Out(f, s[1], s[2])[1].local \notin Range(NewFunc(f).args)
                      /\ \A l \in DOMAIN locals_map :
                            locals_map[l] # Out(f, s[1], s[2])[1].local
          /\ Cardinality(FreshLocals(f)) =
                Cardinality({ t \in SitesOf(f, {"call"}) : IsSet(SiteInstr(t)) })

\* C1: with both sentinels imported the run does not panic and the finished output is
\* free of the sentinels.
C1_SentinelElimination ==
    (HasImport("__ctx_get") /\ HasImport("__ctx_set")) =>
        /\ pc # "panic"
        /\ pc = "done" => SentinelsGone

----------------------------------------------------------------------------
(* C5.  In the finished output every import of the input other than the    *)
(* two sentinels, functions and memories alike, is an import of the output  *)
(* with the same module name, field name and signature, and the output has  *)
(* no other import.                                                         *)
\* C5: the imports of the finished output are exactly the non-sentinel imports of the
\* input, with the same module name, field name, kind and signature.
C5_ImportShape ==
    pc = "done" =>
        /\ \A im \in Range(module.imports) :
              ~SentinelImport(im) => \E k \in 1..Len(imports) : SameImport(imports[k], im)
        /\ \A k \in 1..Len(imports) :
              \E im \in Range(module.imports) :
                 ~SentinelImport(im) /\ SameImport(imports[k], im)

----------------------------------------------------------------------------
(* C8.  In every finished body, when a call of __ctx_set comes before a    *)
(* call of __ctx_get in program order with no other call of __ctx_set       *)
(* between them (the two arms of one If/Else aside), the read that          *)
(* replaces the get is of the local the write that replaces the set writes, *)
(* wherever the two calls are in the block tree.                            *)
SetSites(f) == { s \in SitesOf(f, {"call"}) : IsSet(SiteInstr(s)) }
GetSites(f) == { s \in SitesOf(f, {"call"}) : IsGet(SiteInstr(s)) }

SetReaches(f, s, g) ==
    /\ Before(Address(s), Address(g))
    /\ ~SiblingArms(Address(s), Address(g))
    /\ ~\E t \in SetSites(f) : Before(Address(s), Address(t)) /\ Before(Address(t), Address(g))

\* C8: a get that a set reaches in program order reads the local that set writes.
C8_SetThenGet ==
    \A f \in Copied : \A s \in SetSites(f) : \A g \in GetSites(f) :
       SetReaches(f, s, g) => Out(f, g[1], g[2])[1].local = Out(f, s[1], s[2])[1].local

----------------------------------------------------------------------------
(* C9.  In the finished output every function reference is a function of   *)
(* the output: those of the instructions built, of the export table, the    *)
(* start reference, and those of the copied element segments and global     *)
(* initialisers.                                                            *)
\* C9: every function reference of the finished output is a function of the output.
C9_ReferenceClosure ==
    pc = "done" =>
        /\ \A r \in InstrRefs : IsNewFunc(r)
        /\ \A k \in 1..Len(exports) :
              exports[k].item.kind = "func" => IsNewFunc(exports[k].item.id)
        /\ IsSome(sections.start) => IsNewFunc(sections.start.some)
        /\ \A k \in 1..Len(sections.elements) :
              \A r \in Range(sections.elements[k]) : IsNewFunc(r)
        /\ \A k \in 1..Len(sections.globals) :
              sections.globals[k].init.op = "ref.func" =>
                 IsNewFunc(sections.globals[k].init.func)

----------------------------------------------------------------------------
(* C10.  In the finished output every exported function and the start      *)
(* function have the parameter and result kinds they had in the input, and  *)
(* the output has a start function exactly when the input has one.          *)
\* C10: exported functions and the start function keep their input signature, and the
\* start reference is present exactly when the input has one.
C10_EntryPoints ==
    pc = "done" =>
        /\ \A k \in 1..Len(exports) :
              exports[k].item.kind = "func" =>
                 funcs[exports[k].item.id[2]].ty = FuncOf(module.exports[k].item.id).ty
        /\ IsSome(sections.start) <=> IsSome(module.start)
        /\ IsSome(module.start) =>
              funcs[sections.start.some[2]].ty = FuncOf(module.start.some).ty

====
